---- MODULE Spec2Model ----
(***************************************************************************)
(* Reading tracker: the reading-progress handler, the summary rating       *)
(* handler and the leaderboard query, over the relational store they       *)
(* share (users' points, reading-progress rows, summaries, comments).      *)
(*                                                                         *)
(* Every handler is an async function: it runs from one awaited storage    *)
(* call to the next, and other requests run in between.  An action below   *)
(* is one storage call together with the handler code that follows it up   *)
(* to the next storage call (or to the response).                          *)
(***************************************************************************)
EXTENDS Integers, Sequences, FiniteSets, TLC

VARIABLES points, readingProgress, summaries, comments, now, inflight, last,
          nreq, board, stats, catalog

vars == <<points, readingProgress, summaries, comments, now, inflight, last,
          nreq, board, stats, catalog>>

----------------------------------------------------------------------------
(* Bounds *)

\* number of requests one behaviour starts
MaxReq == 2
\* requests that can be in flight at the same time
NumProcs == 2
\* the hours the clock runs in a behaviour that lets it run
MaxTime == 2

Procs == 1..NumProcs

----------------------------------------------------------------------------
(* Values *)

\* A JavaScript value of a numeric field: a number (the rational n/d, d > 0),
\* a string, undefined (the field is absent from the JSON body) or null (a
\* NULL column).
Rat(n, d) == [t |-> "number", n |-> n, d |-> d]
Num(n) == Rat(n, 1)
Undef == [t |-> "undefined", n |-> 0, d |-> 1]
Null == [t |-> "null", n |-> 0, d |-> 1]
Str(n) == [t |-> "string", n |-> n, d |-> 1]

\* JavaScript truthiness of the numeric values, and the || operator
Truthy(x) == x.t = "number" /\ x.n # 0
Or(a, b) == IF Truthy(a) THEN a ELSE b

\* an id or a status absent from the JSON body
NoId == ""
NoStatus == "undefined"

\* a NULL timestamp column (the clock starts at 0)
NoTime == -1

\* users and their roles (the role is read from the session)
Users == {"s1", "s2", "t1", "a1"}
Role(u) == CASE u = "t1" -> "TEACHER"
             [] u = "a1" -> "ADMIN"
             [] OTHER -> "STUDENT"
NoSession == "nobody"

\* the catalog: a book with a page count and one without
Books == {"b1", "b2"}
BookPages(b) == IF b = "b1" THEN Num(2) ELSE Null
\* an id that is in no table
GhostId == "ghost"

Statuses == {"NOT_STARTED", "READING", "PAUSED", "COMPLETED"}

\* a percentage is the rational n/d, d > 0
Pct(n, d) == [n |-> n, d |-> d]
PctGeq(p, k) == p.n >= k * p.d
PctLeq(p, k) == p.n <= k * p.d
PctIs(p, k) == p.n = k * p.d

\* Math.min
Min2(a, b) == IF a <= b THEN a ELSE b

Idle == [pc |-> "idle"]
NoBoard == [type |-> "", period |-> "", limit |-> 0, list |-> <<>>]
\* no dashboard response yet
NoStats ==
  [code |-> 0, user |-> NoSession, points |-> 0,
   overview |-> [totalBooksStarted |-> 0, totalBooksCompleted |-> 0,
                 totalBooksReading |-> 0, totalBooksPaused |-> 0,
                 completionRate |-> 0, averageProgress |-> 0,
                 readingStreak |-> 0],
   monthlyStats |-> <<>>, streakFailed |-> FALSE]
NoResponse ==
  [kind |-> "none", code |-> 0, user |-> NoSession, id |-> NoId, arg |-> Null]

\* the response to a request of `user` about the book or summary `id`, with
\* the rating the request gave (Null for a progress request)
Respond(kind, code, user, id, arg) ==
  [kind |-> kind, code |-> code, user |-> user, id |-> id, arg |-> arg]

\* a request starts in the first free slot
FreeSlot(p) ==
  /\ inflight[p] = Idle
  /\ \A q \in Procs : q < p => inflight[q] # Idle
  /\ nreq < MaxReq

----------------------------------------------------------------------------
(* POST /api/reading-progress *)

\* const pages = totalPages || book.pages || 0
EffectivePages(totalPages, bookPages) ==
  Or(Or(totalPages, bookPages), Num(0)).n

\* the percentage without the Math.min cap
ProgressPercentageUncapped(currentPage, pages) ==
  IF pages > 0
    THEN Pct(Or(currentPage, Num(0)).n * 100, pages)
    ELSE Pct(0, 1)

\* pages > 0 ? Math.min((currentPage || 0) / pages * 100, 100) : 0
ProgressPercentage(currentPage, pages) ==
  IF pages > 0
    THEN IF Or(currentPage, Num(0)).n * 100 >= 100 * pages
           THEN Pct(100, 1)
           ELSE Pct(Or(currentPage, Num(0)).n * 100, pages)
    ELSE Pct(0, 1)

\* startedAt / completedAt of the request, NoTime when the request sets none
StartedAt(status, t) ==
  IF status \in {"READING", "PAUSED", "COMPLETED"} THEN t ELSE NoTime
CompletedAt(status, t) ==
  IF status = "COMPLETED" THEN t ELSE NoTime

\* the award with the half-way milestone tested by > instead of >=
AwardForStrict(status, pct) ==
  IF status = "COMPLETED" THEN 100
  ELSE IF status = "READING" /\ ~PctLeq(pct, 50) THEN 25
  ELSE 0

\* the points a request is awarded: 100, 25 or none
AwardFor(status, pct) ==
  IF status = "COMPLETED" THEN 100
  ELSE IF status = "READING" /\ PctGeq(pct, 50) THEN 25
  ELSE 0

\* if (!session?.user?.id)
HasSession(session) == session # NoSession

\* a lookup that finds a book for every id
BookFoundAny(bookId) == bookId # NoId

\* prisma.book.findUnique({ where: { id: bookId } }) found a book
BookFound(bookId) == bookId \in catalog

\* lines 239-291: session check, body, bookId check, book lookup, and the
\* values the write will carry
PostProgressBegin(p, session, bookId, status, currentPage, totalPages) ==
  /\ FreeSlot(p)
  /\ nreq' = nreq + 1
  /\ UNCHANGED <<points, readingProgress, summaries, comments, now, board, stats, catalog>>
  /\ IF ~HasSession(session)
       THEN /\ last' = Respond("progress", 401, session, bookId, Null)
            /\ UNCHANGED inflight
     ELSE IF bookId = NoId
       THEN /\ last' = Respond("progress", 400, session, bookId, Null)
            /\ UNCHANGED inflight
     ELSE IF ~BookFound(bookId)
       THEN /\ last' = Respond("progress", 404, session, bookId, Null)
            /\ UNCHANGED inflight
     ELSE LET pages == EffectivePages(totalPages, BookPages(bookId))
              pct == ProgressPercentage(currentPage, pages)
          IN /\ inflight' = [inflight EXCEPT ![p] =
                   [pc |-> "upsert", user |-> session, bookId |-> bookId,
                    status |-> status, currentPage |-> currentPage,
                    totalPages |-> totalPages, pages |-> pages,
                    progressPercentage |-> pct, at |-> now,
                    startedAt |-> StartedAt(status, now),
                    completedAt |-> CompletedAt(status, now)]]
             /\ UNCHANGED last

\* the create branch of the upsert
CreateRow(r, t) ==
  [userId |-> r.user, bookId |-> r.bookId,
   status |-> IF r.status = NoStatus THEN "NOT_STARTED" ELSE r.status,
   currentPage |-> Or(r.currentPage, Num(0)).n, totalPages |-> r.pages,
   progressPercentage |-> r.progressPercentage,
   startedAt |-> r.startedAt, completedAt |-> r.completedAt,
   updatedAt |-> t]

\* an update that keeps a startedAt once it is stored
UpdateRowKeepStart(old, r, t) ==
  [userId |-> old.userId, bookId |-> old.bookId,
   status |-> IF r.status = NoStatus THEN old.status ELSE r.status,
   currentPage |-> Or(r.currentPage, Num(0)).n, totalPages |-> r.pages,
   progressPercentage |-> r.progressPercentage,
   startedAt |-> IF old.startedAt # NoTime THEN old.startedAt ELSE r.startedAt,
   completedAt |-> IF r.completedAt = NoTime THEN old.completedAt
                   ELSE r.completedAt,
   updatedAt |-> t]

\* the update branch of the upsert: an undefined field is left as stored
UpdateRow(old, r, t) ==
  [userId |-> old.userId, bookId |-> old.bookId,
   status |-> IF r.status = NoStatus THEN old.status ELSE r.status,
   currentPage |-> Or(r.currentPage, Num(0)).n, totalPages |-> r.pages,
   progressPercentage |-> r.progressPercentage,
   startedAt |-> IF r.startedAt = NoTime THEN old.startedAt ELSE r.startedAt,
   completedAt |-> IF r.completedAt = NoTime THEN old.completedAt
                   ELSE r.completedAt,
   updatedAt |-> t]

RowsOf(rows, u, b) == {x \in rows : x.userId = u /\ x.bookId = b}

\* an upsert that matches the stored row on every column, not on the key
UpsertByValue(rows, r, t) ==
  IF CreateRow(r, t) \in rows THEN rows ELSE rows \cup {CreateRow(r, t)}

\* prisma.readingProgress.upsert keyed on (userId, bookId)
Upsert(rows, r, t) ==
  IF RowsOf(rows, r.user, r.bookId) = {}
    THEN rows \cup {CreateRow(r, t)}
    ELSE (rows \ RowsOf(rows, r.user, r.bookId))
           \cup {UpdateRow(old, r, t) : old \in RowsOf(rows, r.user, r.bookId)}

\* lines 293-332, and the response when no award follows; the write throws
\* when the book has been deleted meanwhile
PostProgressUpsert(p) ==
  /\ inflight[p].pc = "upsert"
  /\ BookFound(inflight[p].bookId)
  /\ readingProgress' = Upsert(readingProgress, inflight[p], now)
  /\ IF AwardFor(inflight[p].status, inflight[p].progressPercentage) > 0
       THEN /\ inflight' = [inflight EXCEPT ![p].pc = "award"]
            /\ UNCHANGED last
       ELSE /\ inflight' = [inflight EXCEPT ![p] = Idle]
            /\ last' = Respond("progress", 200, inflight[p].user,
                               inflight[p].bookId, Null)
  /\ UNCHANGED <<points, summaries, comments, now, nreq, board, stats, catalog>>

\* lines 334-360: the atomic increment and the response
PostProgressAward(p) ==
  /\ inflight[p].pc = "award"
  /\ points' = [points EXCEPT ![inflight[p].user] =
       @ + AwardFor(inflight[p].status, inflight[p].progressPercentage)]
  /\ inflight' = [inflight EXCEPT ![p] = Idle]
  /\ last' = Respond("progress", 200, inflight[p].user, inflight[p].bookId,
                     Null)
  /\ UNCHANGED <<readingProgress, summaries, comments, now, nreq, board, stats, catalog>>

\* a failure that takes the written row back when the award throws
PostProgressFailRollback(p) ==
  /\ inflight[p].pc \in {"upsert", "award"}
  /\ readingProgress' =
       IF inflight[p].pc = "award"
         THEN readingProgress \ RowsOf(readingProgress, inflight[p].user,
                                       inflight[p].bookId)
         ELSE readingProgress
  /\ inflight' = [inflight EXCEPT ![p] = Idle]
  /\ last' = Respond("progress", 500, inflight[p].user, inflight[p].bookId,
                     Null)
  /\ UNCHANGED <<points, summaries, comments, now, nreq, board, stats, catalog>>

\* lines 361-367: a storage call of the progress handler throws
PostProgressFail(p) ==
  /\ inflight[p].pc \in {"upsert", "award"}
  /\ inflight' = [inflight EXCEPT ![p] = Idle]
  /\ last' = Respond("progress", 500, inflight[p].user, inflight[p].bookId,
                     Null)
  /\ UNCHANGED <<points, readingProgress, summaries, comments, now, nreq,
                 board, stats, catalog>>

----------------------------------------------------------------------------
(* The progress handler on an empty store *)

InitProgress ==
  /\ points = [u \in Users |-> 0]
  /\ readingProgress = {}
  /\ summaries = {}
  /\ comments = <<>>
  /\ now = 0
  /\ inflight = [p \in Procs |-> Idle]
  /\ last = NoResponse
  /\ nreq = 0
  /\ board = NoBoard
  /\ stats = NoStats
  /\ catalog = Books

\* two users, both books, every status; page 1 is half of b1 and, b2 having no
\* page count, 0% of b2
ProgressSessions == {NoSession, "s1", "t1"}
ProgressBookIds == {NoId, GhostId} \cup Books
ProgressStatuses == {NoStatus} \cup Statuses
ProgressCurrentPages == {Num(1)}

NextProgress ==
  \/ \E p \in Procs, session \in ProgressSessions, bookId \in ProgressBookIds,
        status \in ProgressStatuses, currentPage \in ProgressCurrentPages :
       PostProgressBegin(p, session, bookId, status, currentPage, Undef)
  \/ \E p \in Procs : PostProgressUpsert(p)
  \/ \E p \in Procs : PostProgressAward(p)
  \/ \E p \in Procs : PostProgressFail(p)

SpecProgress == InitProgress /\ [][NextProgress]_vars

\* the clock moves on by an hour
Tick ==
  /\ now < MaxTime
  /\ now' = now + 1
  /\ UNCHANGED <<points, readingProgress, summaries, comments, inflight, last,
                 nreq, board, stats, catalog>>

\* one user and one book, every status, while the clock runs
NextTimes ==
  \/ \E p \in Procs, status \in ProgressStatuses :
       PostProgressBegin(p, "s1", "b1", status, Num(1), Undef)
  \/ \E p \in Procs : PostProgressUpsert(p)
  \/ \E p \in Procs : PostProgressAward(p)
  \/ \E p \in Procs : PostProgressFail(p)
  \/ Tick

SpecTimes == InitProgress /\ [][NextTimes]_vars

\* one user, both books, every page position and page total
PagesCurrentPages == {Undef} \cup {Num(n) : n \in {-1, 1, 3}}
PagesTotalPages == {Undef, Num(0), Num(4), Num(-1)}

NextPages ==
  \/ \E p \in Procs, bookId \in Books, currentPage \in PagesCurrentPages,
        totalPages \in PagesTotalPages :
       PostProgressBegin(p, "s1", bookId, "READING", currentPage, totalPages)
  \/ \E p \in Procs : PostProgressUpsert(p)
  \/ \E p \in Procs : PostProgressAward(p)
  \/ \E p \in Procs : PostProgressFail(p)

SpecPages == InitProgress /\ [][NextPages]_vars

----------------------------------------------------------------------------
(* PATCH /api/summaries/[id] *)

\* A JavaScript string value is the sequence of its characters; undefined
\* when the field is absent from the JSON body.
Text(chars) == [t |-> "string", s |-> chars]
NoText == [t |-> "undefined", s |-> <<>>]

Whitespace == {" "}

RECURSIVE TrimStart(_)
TrimStart(chars) ==
  IF chars # <<>> /\ Head(chars) \in Whitespace
    THEN TrimStart(Tail(chars))
    ELSE chars

RECURSIVE TrimEnd(_)
TrimEnd(chars) ==
  IF chars # <<>> /\ chars[Len(chars)] \in Whitespace
    THEN TrimEnd(SubSeq(chars, 1, Len(chars) - 1))
    ELSE chars

\* String.prototype.trim
Trim(chars) == TrimEnd(TrimStart(chars))

\* a test that takes any non-empty feedback, blank or not
HasFeedbackUntrimmed(feedback) == feedback.t = "string" /\ feedback.s # <<>>

\* feedback && feedback.trim()
HasFeedback(feedback) ==
  /\ feedback.t = "string"
  /\ feedback.s # <<>>
  /\ Trim(feedback.s) # <<>>

\* `Teacher Feedback: ${feedback}`
FeedbackPrefix ==
  <<"T", "e", "a", "c", "h", "e", "r", " ",
    "F", "e", "e", "d", "b", "a", "c", "k", ":", " ">>
FeedbackContent(feedback) == FeedbackPrefix \o feedback.s

\* a role check that lets every signed-in user through
MayRateAnyone(session) == TRUE

\* session.user.role !== "TEACHER" && session.user.role !== "ADMIN" is false
MayRate(session) == Role(session) \in {"TEACHER", "ADMIN"}

\* a range check that is open at the upper end
RatingValidNoMax(rating) == rating.t = "number" /\ ~(rating.n < rating.d)

\* typeof rating !== "number" || rating < 1 || rating > 5 is false
RatingValid(rating) ==
  /\ rating.t = "number"
  /\ ~(rating.n < rating.d)
  /\ ~(rating.n > 5 * rating.d)

\* a bonus counted from the middle of the scale: a rating below 3 costs points
BonusPointsSigned(rating) ==
  (20 * (rating.n - 3 * rating.d) + rating.d) \div (2 * rating.d)

\* Math.round(rating * 10): the nearest integer, halves upward
BonusPoints(rating) == (20 * rating.n + rating.d) \div (2 * rating.d)

\* a summary without a rating
Unrated == Null

SummaryIds(table) == {x.id : x \in table}
SummaryById(table, id) == CHOOSE x \in table : x.id = id

\* an update that clears the rating of a summary that has one
SetRatingToggle(table, id, rating) ==
  {IF x.id = id
     THEN [x EXCEPT !.rating = IF x.rating = Unrated THEN rating ELSE Unrated]
     ELSE x : x \in table}

\* prisma.summary.update({ where: { id }, data: { rating } })
SetRating(table, id, rating) ==
  {IF x.id = id THEN [x EXCEPT !.rating = rating] ELSE x : x \in table}

\* lines 84-110: session check, role check, body, rating validation
PatchRatingBegin(p, session, id, rating, feedback) ==
  /\ FreeSlot(p)
  /\ nreq' = nreq + 1
  /\ UNCHANGED <<points, readingProgress, summaries, comments, now, board, stats, catalog>>
  /\ IF ~HasSession(session)
       THEN /\ last' = Respond("rate", 401, session, id, rating)
            /\ UNCHANGED inflight
     ELSE IF ~MayRate(session)
       THEN /\ last' = Respond("rate", 403, session, id, rating)
            /\ UNCHANGED inflight
     ELSE IF ~RatingValid(rating)
       THEN /\ last' = Respond("rate", 400, session, id, rating)
            /\ UNCHANGED inflight
     ELSE /\ inflight' = [inflight EXCEPT ![p] =
                [pc |-> "find", user |-> session, id |-> id,
                 rating |-> rating, feedback |-> feedback,
                 author |-> NoSession]]
          /\ UNCHANGED last

\* lines 112-127: prisma.summary.findUnique and the 404
PatchRatingFind(p) ==
  /\ inflight[p].pc = "find"
  /\ IF inflight[p].id \in SummaryIds(summaries)
       THEN /\ inflight' = [inflight EXCEPT
                 ![p].pc = "update",
                 ![p].author = SummaryById(summaries, inflight[p].id).authorId]
            /\ UNCHANGED last
       ELSE /\ inflight' = [inflight EXCEPT ![p] = Idle]
            /\ last' = Respond("rate", 404, inflight[p].user, inflight[p].id,
                     inflight[p].rating)
  /\ UNCHANGED <<points, readingProgress, summaries, comments, now, nreq,
                 board, stats, catalog>>

\* lines 129-163: prisma.summary.update, then the feedback test
PatchRatingUpdate(p) ==
  /\ inflight[p].pc = "update"
  /\ inflight[p].id \in SummaryIds(summaries)
  /\ summaries' = SetRating(summaries, inflight[p].id, inflight[p].rating)
  /\ inflight' = [inflight EXCEPT ![p].pc =
       IF HasFeedback(inflight[p].feedback) THEN "comment" ELSE "bonus"]
  /\ UNCHANGED <<points, readingProgress, comments, now, last, nreq, board, stats, catalog>>

\* lines 164-170: prisma.comment.create
PatchRatingComment(p) ==
  /\ inflight[p].pc = "comment"
  /\ comments' = Append(comments,
       [content |-> FeedbackContent(inflight[p].feedback),
        authorId |-> inflight[p].user, summaryId |-> inflight[p].id])
  /\ inflight' = [inflight EXCEPT ![p].pc = "bonus"]
  /\ UNCHANGED <<points, readingProgress, summaries, now, last, nreq, board, stats, catalog>>

\* lines 173-188: the atomic increment for the author, and the response
PatchRatingBonus(p) ==
  /\ inflight[p].pc = "bonus"
  /\ points' = [points EXCEPT ![inflight[p].author] =
       @ + BonusPoints(inflight[p].rating)]
  /\ inflight' = [inflight EXCEPT ![p] = Idle]
  /\ last' = Respond("rate", 200, inflight[p].user, inflight[p].id,
                     inflight[p].rating)
  /\ UNCHANGED <<readingProgress, summaries, comments, now, nreq, board, stats, catalog>>

\* lines 189-195: a storage call of the rating handler throws
PatchRatingFail(p) ==
  /\ inflight[p].pc \in {"find", "update", "comment", "bonus"}
  /\ inflight' = [inflight EXCEPT ![p] = Idle]
  /\ last' = Respond("rate", 500, inflight[p].user, inflight[p].id,
                     inflight[p].rating)
  /\ UNCHANGED <<points, readingProgress, summaries, comments, now, nreq,
                 board, stats, catalog>>

----------------------------------------------------------------------------
(* The rating handler on a store that holds two summaries *)

\* a student's and a teacher's summary of b1, not yet rated; writing a
\* summary earned each author 50 points
InitRating ==
  /\ points = [u \in Users |-> IF u \in {"s1", "t1"} THEN 50 ELSE 0]
  /\ readingProgress = {}
  /\ summaries = {[id |-> "sm1", authorId |-> "s1", bookId |-> "b1",
                   rating |-> Unrated, createdAt |-> 0],
                  [id |-> "sm2", authorId |-> "t1", bookId |-> "b1",
                   rating |-> Unrated, createdAt |-> 0]}
  /\ comments = <<>>
  /\ now = 0
  /\ inflight = [p \in Procs |-> Idle]
  /\ last = NoResponse
  /\ nreq = 0
  /\ board = NoBoard
  /\ stats = NoStats
  /\ catalog = Books

\* every kind of caller and of rating, on the summary and on an unknown id:
\* absent, "5", 0, 1, 2.25, 5, 6
RatingSessions == {NoSession, "s1", "t1", "a1"}
RatingIds == {"sm1", GhostId}
RatingValues == {Undef, Str(5), Num(0), Num(1), Rat(9, 4), Num(5), Num(6)}

NextRating ==
  \/ \E p \in Procs, session \in RatingSessions, id \in RatingIds,
        rating \in RatingValues :
       PatchRatingBegin(p, session, id, rating, NoText)
  \/ \E p \in Procs : PatchRatingFind(p)
  \/ \E p \in Procs : PatchRatingUpdate(p)
  \/ \E p \in Procs : PatchRatingBonus(p)
  \/ \E p \in Procs : PatchRatingFail(p)

SpecRating == InitRating /\ [][NextRating]_vars

\* a teacher rating both summaries, with every kind of feedback:
\* absent, blank, " ok"
FeedbackSessions == {"t1"}
FeedbackIds == {"sm1", "sm2"}
FeedbackValues == {Num(1), Num(5)}
FeedbackTexts == {NoText, Text(<<" ">>), Text(<<" ", "o", "k">>)}

NextFeedback ==
  \/ \E p \in Procs, session \in FeedbackSessions, id \in FeedbackIds,
        rating \in FeedbackValues, feedback \in FeedbackTexts :
       PatchRatingBegin(p, session, id, rating, feedback)
  \/ \E p \in Procs : PatchRatingFind(p)
  \/ \E p \in Procs : PatchRatingUpdate(p)
  \/ \E p \in Procs : PatchRatingComment(p)
  \/ \E p \in Procs : PatchRatingBonus(p)
  \/ \E p \in Procs : PatchRatingFail(p)

SpecFeedback == InitRating /\ [][NextFeedback]_vars

----------------------------------------------------------------------------
(* The summaries page: the rating dialog and rateSummary *)

\* [1,2,3,4,5,6,7,8,9,10].map: the scores the dialog's select offers
DialogScores == 1..10

\* session.user.role === "TEACHER" || session.user.role === "ADMIN"
CanRateSummaries(session) == Role(session) \in {"TEACHER", "ADMIN"}

\* canRateSummaries && !summary.rating && summary.author.id !== session.user.id:
\* the Rate control is shown for the summary
RateControlShown(session, id) ==
  /\ HasSession(session)
  /\ CanRateSummaries(session)
  /\ id \in SummaryIds(summaries)
  /\ ~Truthy(SummaryById(summaries, id).rating)
  /\ SummaryById(summaries, id).authorId # session

\* ratingContent.trim() || undefined
PageFeedback(ratingContent) ==
  IF Trim(ratingContent) = <<>> THEN NoText ELSE Text(Trim(ratingContent))

\* Submit Rating: rateSummary returns without a request unless the role is
\* TEACHER, and else sends the PATCH with the selected score
RateSummary(p, session, id, ratingScore, ratingContent) ==
  /\ RateControlShown(session, id)
  /\ IF Role(session) # "TEACHER"
       THEN /\ FreeSlot(p)
            /\ nreq' = nreq + 1
            /\ last' = Respond("page", 0, session, id, Num(ratingScore))
            /\ UNCHANGED <<points, readingProgress, summaries, comments, now,
                           inflight, board, stats, catalog>>
       ELSE PatchRatingBegin(p, session, id, Num(ratingScore),
                             PageFeedback(ratingContent))

\* the three roles on the page of b1, with and without feedback
PageSessions == {"s1", "t1", "a1"}
PageIds == {"sm1", "sm2"}
PageContents == {<<>>, <<" ", "o", "k">>}
\* the ends of the offered scale and the two scores around the handler's limit
PageScores == {score \in DialogScores : score \in {1, 5, 6, 10}}

NextPage ==
  \/ \E p \in Procs, session \in PageSessions, id \in PageIds,
        ratingScore \in PageScores, ratingContent \in PageContents :
       RateSummary(p, session, id, ratingScore, ratingContent)
  \/ \E p \in Procs : PatchRatingFind(p)
  \/ \E p \in Procs : PatchRatingUpdate(p)
  \/ \E p \in Procs : PatchRatingComment(p)
  \/ \E p \in Procs : PatchRatingBonus(p)
  \/ \E p \in Procs : PatchRatingFail(p)

SpecPage == InitRating /\ [][NextPage]_vars

----------------------------------------------------------------------------
(* GET /api/leaderboard *)

\* the clock counts hours
Day == 24
Week == 7 * Day
Month == 30 * Day

\* Math.round of the non-negative rational a/b
Round(a, b) == (2 * a + b) \div (2 * b)

\* lines 16-22: the start of the window, NoTime when there is none
WindowStart(period, t) ==
  IF period = "week" THEN t - Week
  ELSE IF period = "month" THEN t - Month
  ELSE NoTime

\* a window that lets every row in
InWindowAlways(stamp, since) == TRUE

\* lines 38-40 and 53-55: updatedAt / createdAt { gte: since }
InWindow(stamp, since) == since = NoTime \/ stamp >= since

\* lines 26-30: where: userRoleFilter
UsersWhere(type) ==
  IF type = "students" THEN {u \in Users : Role(u) = "STUDENT"}
  ELSE IF type = "teachers" THEN {u \in Users : Role(u) \in {"TEACHER", "ADMIN"}}
  ELSE Users

\* an order by points, lowest first
OrderedAsc(q) == \A i, j \in DOMAIN q : i < j => points[q[i]] <= points[q[j]]

\* orderBy: { points: 'desc' }; rows with equal points come in any order
OrderedDesc(q) == \A i, j \in DOMAIN q : i < j => points[q[i]] >= points[q[j]]

\* the orders in which the store can return the users of U
OrdersOf(U) ==
  {q \in [1..Cardinality(U) -> U] :
     /\ \A i, j \in DOMAIN q : i # j => q[i] # q[j]
     /\ OrderedDesc(q)}

\* take: limit
Take(q, limit) == SubSeq(q, 1, Min2(limit, Len(q)))

RECURSIVE SumOver(_, _)
\* the sum of f[x] over the set S
SumOver(f, S) ==
  IF S = {} THEN 0
  ELSE LET x == CHOOSE y \in S : TRUE IN f[x] + SumOver(f, S \ {x})

\* book.pages || 0
PagesOrZero(b) == Or(BookPages(b), Num(0)).n

RECURSIVE SumOfRatings(_)
\* reduce((sum, summary) => sum + summary.rating, 0): a rating that is null
\* adds 0
SumOfRatings(S) ==
  IF S = {} THEN Rat(0, 1)
  ELSE LET x == CHOOSE y \in S : TRUE
           rest == SumOfRatings(S \ {x})
       IN IF x.rating.t = "number"
            THEN Rat(rest.n * x.rating.d + x.rating.n * rest.d,
                     rest.d * x.rating.d)
            ELSE rest

\* lines 89-91 and 125: the sum of the ratings over the number of included
\* summaries, rounded to one decimal: a rational of tenths
AverageSummaryRating(mine) ==
  IF mine = {} THEN Rat(0, 10)
  ELSE Rat(Round(10 * SumOfRatings(mine).n,
                 SumOfRatings(mine).d * Cardinality(mine)), 10)

\* lines 93-106: the number of included rows, capped at 30, when the newest
\* of them is less than two days old
ReadingStreak(rows, t) ==
  IF rows = {} THEN 0
  ELSE LET first == CHOOSE x \in rows : \A y \in rows : x.updatedAt >= y.updatedAt
           daysDiff == (t - first.updatedAt) \div Day
       IN IF daysDiff <= 1 THEN Min2(Cardinality(rows), 30) ELSE 0

\* a rank that counts from 0
RankFrom0(index) == index

\* rank: index + 1
Rank(index) == index + 1

\* lines 76-132: the entry of user u at the 0-based position index
Entry(u, index, since, t) ==
  LET rows == {x \in readingProgress :
                 x.userId = u /\ InWindow(x.updatedAt, since)}
      mine == {x \in summaries :
                 x.authorId = u /\ InWindow(x.createdAt, since)}
      completed == {x \in rows : x.status = "COMPLETED"}
      reading == {x \in rows : x.status = "READING"}
  IN [rank |-> Rank(index),
      userId |-> u,
      role |-> Role(u),
      points |-> points[u],
      booksCompleted |-> Cardinality(completed),
      booksReading |-> Cardinality(reading),
      totalBooksStarted |-> Cardinality(rows),
      totalPagesRead |->
        SumOver([x \in completed |-> PagesOrZero(x.bookId)], completed),
      summariesWritten |-> Cardinality(mine),
      averageSummaryRating |-> AverageSummaryRating(mine),
      readingStreak |-> ReadingStreak(rows, t),
      completionRate |->
        IF rows # {} THEN Round(100 * Cardinality(completed), Cardinality(rows))
        ELSE 0]

\* lines 5-159: the query and the entries made of its result
GetLeaderboard(type, period, limit) ==
  /\ \E q \in OrdersOf(UsersWhere(type)) :
       board' = [type |-> type, period |-> period, limit |-> limit,
                 list |-> [i \in 1..Len(Take(q, limit)) |->
                    Entry(Take(q, limit)[i], i - 1,
                          WindowStart(period, now), now)]]
  /\ UNCHANGED <<points, readingProgress, summaries, comments, now, inflight,
                 last, nreq, stats, catalog>>

----------------------------------------------------------------------------
(* The leaderboard over the stores the handlers leave behind *)

\* the time of the query, noon of a day, and the times of the stored rows:
\* an hour ago, just over a week ago, just over thirty days ago
BoardNow == 40 * Day + 12
BoardTimes == {BoardNow - 1, BoardNow - Week - 1, BoardNow - Month - 1}

\* the row a progress request of user u for book b at page 1 wrote at time t
BoardRow(u, b, status, t) ==
  CreateRow([user |-> u, bookId |-> b, status |-> status,
             currentPage |-> Num(1),
             pages |-> EffectivePages(Undef, BookPages(b)),
             progressPercentage |->
               ProgressPercentage(Num(1), EffectivePages(Undef, BookPages(b))),
             startedAt |-> StartedAt(status, t),
             completedAt |-> CompletedAt(status, t)], t)

\* no row for (u, b), or one row in one of the statuses S
BoardRows(u, b, S) ==
  {{}} \cup {{BoardRow(u, b, status, t)} : status \in S, t \in BoardTimes}

\* no summary of s1, or one, rated 4 or not rated
BoardSummaries ==
  {{}} \cup {{[id |-> "sm1", authorId |-> "s1", bookId |-> "b1",
               rating |-> rating, createdAt |-> t]} :
               rating \in {Unrated, Num(4)}, t \in BoardTimes}

\* the points the writes behind these rows and summaries earned their user
Earned(rows, mine) ==
  SumOver([x \in rows |-> AwardFor(x.status, x.progressPercentage)], rows)
  + SumOver([x \in mine |->
       50 + IF x.rating = Unrated THEN 0 ELSE BonusPoints(x.rating)], mine)

\* s1 has the rows, the summary and the points its requests left; the others
\* have no rows and the points of summaries since deleted
InitBoard ==
  /\ now = BoardNow
  /\ \E r1 \in BoardRows("s1", "b1", {"READING", "COMPLETED"}),
        r2 \in BoardRows("s1", "b2", {"READING"}),
        mine \in BoardSummaries, p2 \in {0, 100} :
       /\ readingProgress = r1 \cup r2
       /\ summaries = mine
       /\ points = [u \in Users |->
            CASE u = "s1" -> Earned(r1 \cup r2, mine)
              [] u = "s2" -> p2
              [] u = "t1" -> 100
              [] OTHER -> 50]
  /\ comments = <<>>
  /\ inflight = [p \in Procs |-> Idle]
  /\ last = NoResponse
  /\ nreq = 0
  /\ board = NoBoard
  /\ stats = NoStats
  /\ catalog = Books

BoardTypes == {"students", "teachers", "all"}
BoardPeriods == {"all", "week", "month"}
BoardLimits == {1, 2, 10}

NextBoard ==
  \E type \in BoardTypes, period \in BoardPeriods, limit \in BoardLimits :
    GetLeaderboard(type, period, limit)

SpecBoard == InitBoard /\ [][NextBoard]_vars

----------------------------------------------------------------------------
(* POST /api/summaries *)

\* !content is false: a string that is not empty
HasContent(content) == content.t = "string" /\ content.s # <<>>

\* the ids the store gives new summaries
SummaryIdPool == {"sm1", "sm2", "sm3", "sm4", "sm5"}
NewSummaryId(table) == CHOOSE id \in SummaryIdPool : id \notin SummaryIds(table)

\* lines 394-399: prisma.summary.findFirst({ where: { authorId, bookId } })
SummaryExists(table, authorId, bookId) ==
  \E x \in table : x.authorId = authorId /\ x.bookId = bookId

\* lines 408-415: prisma.summary.create; the rating column is left to its
\* default
CreateSummary(table, authorId, bookId, t) ==
  table \cup {[id |-> NewSummaryId(table), authorId |-> authorId,
               bookId |-> bookId, rating |-> Unrated, createdAt |-> t]}

\* line 448: increment: 50
SummaryAward == 50

\* lines 354-388: session check, body, required fields, book lookup
PostSummaryBegin(p, session, bookId, content) ==
  /\ FreeSlot(p)
  /\ nreq' = nreq + 1
  /\ UNCHANGED <<points, readingProgress, summaries, comments, now, board,
                 stats, catalog>>
  /\ IF ~HasSession(session)
       THEN /\ last' = Respond("summary", 401, session, bookId, Null)
            /\ UNCHANGED inflight
     ELSE IF ~HasContent(content) \/ bookId = NoId
       THEN /\ last' = Respond("summary", 400, session, bookId, Null)
            /\ UNCHANGED inflight
     ELSE IF ~BookFound(bookId)
       THEN /\ last' = Respond("summary", 404, session, bookId, Null)
            /\ UNCHANGED inflight
     ELSE /\ inflight' = [inflight EXCEPT ![p] =
                [pc |-> "exists", user |-> session, bookId |-> bookId]]
          /\ UNCHANGED last

\* lines 393-406: the existence check and the 409
PostSummaryExists(p) ==
  /\ inflight[p].pc = "exists"
  /\ IF SummaryExists(summaries, inflight[p].user, inflight[p].bookId)
       THEN /\ last' = Respond("summary", 409, inflight[p].user,
                               inflight[p].bookId, Null)
            /\ inflight' = [inflight EXCEPT ![p] = Idle]
       ELSE /\ inflight' = [inflight EXCEPT ![p].pc = "create"]
            /\ UNCHANGED last
  /\ UNCHANGED <<points, readingProgress, summaries, comments, now, nreq,
                 board, stats, catalog>>

\* lines 408-441: the summary is created; the write throws when the book
\* has been deleted meanwhile
PostSummaryCreate(p) ==
  /\ inflight[p].pc = "create"
  /\ BookFound(inflight[p].bookId)
  /\ summaries' = CreateSummary(summaries, inflight[p].user,
                                inflight[p].bookId, now)
  /\ inflight' = [inflight EXCEPT ![p].pc = "reward"]
  /\ UNCHANGED <<points, readingProgress, comments, now, last, nreq, board,
                 stats, catalog>>

\* an award that is paid to every user
PostSummaryAwardEveryone(p) ==
  /\ inflight[p].pc = "reward"
  /\ points' = [u \in Users |-> points[u] + SummaryAward]
  /\ last' = Respond("summary", 201, inflight[p].user, inflight[p].bookId,
                     Null)
  /\ inflight' = [inflight EXCEPT ![p] = Idle]
  /\ UNCHANGED <<readingProgress, summaries, comments, now, nreq, board,
                 stats, catalog>>

\* lines 443-457: the author's points are incremented, 201
PostSummaryAward(p) ==
  /\ inflight[p].pc = "reward"
  /\ points' = [points EXCEPT ![inflight[p].user] = @ + SummaryAward]
  /\ last' = Respond("summary", 201, inflight[p].user, inflight[p].bookId,
                     Null)
  /\ inflight' = [inflight EXCEPT ![p] = Idle]
  /\ UNCHANGED <<readingProgress, summaries, comments, now, nreq, board,
                 stats, catalog>>

\* lines 458-464: a storage call throws, 500
PostSummaryFail(p) ==
  /\ inflight[p].pc \in {"exists", "create", "reward"}
  /\ last' = Respond("summary", 500, inflight[p].user, inflight[p].bookId,
                     Null)
  /\ inflight' = [inflight EXCEPT ![p] = Idle]
  /\ UNCHANGED <<points, readingProgress, summaries, comments, now, nreq,
                 board, stats, catalog>>

\* two students, the catalogued book, an unknown book and no book, with and
\* without content
SummarySessions == {NoSession, "s1", "s2"}
SummaryBookIds == {NoId, GhostId, "b1"}
SummaryContents == {NoText, Text(<<"o", "k">>)}

NextSummary ==
  \/ \E p \in Procs, session \in SummarySessions, bookId \in SummaryBookIds,
        content \in SummaryContents :
       PostSummaryBegin(p, session, bookId, content)
  \/ \E p \in Procs : PostSummaryExists(p)
  \/ \E p \in Procs : PostSummaryCreate(p)
  \/ \E p \in Procs : PostSummaryAward(p)
  \/ \E p \in Procs : PostSummaryFail(p)

SpecSummary == InitProgress /\ [][NextSummary]_vars

----------------------------------------------------------------------------
(* DELETE /api/summaries/[id] *)

\* existingSummary.authorId !== session.user.id && session.user.role !==
\* "ADMIN" is false
MayDelete(session, authorId) == authorId = session \/ Role(session) = "ADMIN"

\* lines 204-213: session check
DeleteSummaryBegin(p, session, id) ==
  /\ FreeSlot(p)
  /\ nreq' = nreq + 1
  /\ UNCHANGED <<points, readingProgress, summaries, comments, now, board,
                 stats, catalog>>
  /\ IF ~HasSession(session)
       THEN /\ last' = Respond("delete", 401, session, id, Null)
            /\ UNCHANGED inflight
       ELSE /\ inflight' = [inflight EXCEPT ![p] =
                  [pc |-> "lookup", user |-> session, id |-> id]]
            /\ UNCHANGED last

\* lines 215-234: the summary is looked up; 404, 403
DeleteSummaryFind(p) ==
  /\ inflight[p].pc = "lookup"
  /\ IF inflight[p].id \notin SummaryIds(summaries)
       THEN /\ last' = Respond("delete", 404, inflight[p].user,
                               inflight[p].id, Null)
            /\ inflight' = [inflight EXCEPT ![p] = Idle]
     ELSE IF ~MayDelete(inflight[p].user,
                        SummaryById(summaries, inflight[p].id).authorId)
       THEN /\ last' = Respond("delete", 403, inflight[p].user,
                               inflight[p].id, Null)
            /\ inflight' = [inflight EXCEPT ![p] = Idle]
     ELSE /\ inflight' = [inflight EXCEPT ![p].pc = "delete"]
          /\ UNCHANGED last
  /\ UNCHANGED <<points, readingProgress, summaries, comments, now, nreq,
                 board, stats, catalog>>

\* lines 236-244: prisma.summary.delete({ where: { id } }); it throws when
\* the row is gone, which the catch answers with 500
DeleteSummaryDelete(p) ==
  /\ inflight[p].pc = "delete"
  /\ IF inflight[p].id \in SummaryIds(summaries)
       THEN /\ summaries' = {x \in summaries : x.id # inflight[p].id}
            /\ last' = Respond("delete", 200, inflight[p].user,
                               inflight[p].id, Null)
       ELSE /\ UNCHANGED summaries
            /\ last' = Respond("delete", 500, inflight[p].user,
                               inflight[p].id, Null)
  /\ inflight' = [inflight EXCEPT ![p] = Idle]
  /\ UNCHANGED <<points, readingProgress, comments, now, nreq, board, stats,
                 catalog>>

\* lines 245-251: a storage call throws, 500
DeleteSummaryFail(p) ==
  /\ inflight[p].pc \in {"lookup", "delete"}
  /\ last' = Respond("delete", 500, inflight[p].user, inflight[p].id, Null)
  /\ inflight' = [inflight EXCEPT ![p] = Idle]
  /\ UNCHANGED <<points, readingProgress, summaries, comments, now, nreq,
                 board, stats, catalog>>

----------------------------------------------------------------------------
(* DELETE of a book: an ADMIN deletes a book of the catalog, and the      *)
(* book's reading-progress rows and summaries go with it                   *)

DeleteBook(session, bookId) ==
  /\ nreq < MaxReq
  /\ nreq' = nreq + 1
  /\ IF ~HasSession(session)
       THEN /\ last' = Respond("book", 401, session, bookId, Null)
            /\ UNCHANGED <<readingProgress, summaries, catalog>>
     ELSE IF Role(session) # "ADMIN"
       THEN /\ last' = Respond("book", 403, session, bookId, Null)
            /\ UNCHANGED <<readingProgress, summaries, catalog>>
     ELSE IF ~BookFound(bookId)
       THEN /\ last' = Respond("book", 404, session, bookId, Null)
            /\ UNCHANGED <<readingProgress, summaries, catalog>>
     ELSE /\ catalog' = catalog \ {bookId}
          /\ readingProgress' = {x \in readingProgress : x.bookId # bookId}
          /\ summaries' = {x \in summaries : x.bookId # bookId}
          /\ last' = Respond("book", 200, session, bookId, Null)
  /\ UNCHANGED <<points, comments, now, inflight, board, stats>>

----------------------------------------------------------------------------
(* Every handler that writes, on the store that holds two summaries *)

PointsStatuses == {"READING", "COMPLETED"}
PointsBookIds == {"b1", "b2"}
PointsRatings == {Num(1), Num(5), Num(6)}
PointsDeleters == {"s1", "a1"}
PointsAuthors == {NoSession, "s1"}

NextPoints ==
  \/ \E p \in Procs, status \in PointsStatuses :
       PostProgressBegin(p, "s1", "b1", status, Num(1), Undef)
  \/ \E p \in Procs : PostProgressUpsert(p)
  \/ \E p \in Procs : PostProgressAward(p)
  \/ \E p \in Procs : PostProgressFail(p)
  \/ \E p \in Procs, session \in PointsAuthors, bookId \in PointsBookIds,
        content \in SummaryContents :
       PostSummaryBegin(p, session, bookId, content)
  \/ \E p \in Procs : PostSummaryExists(p)
  \/ \E p \in Procs : PostSummaryCreate(p)
  \/ \E p \in Procs : PostSummaryAward(p)
  \/ \E p \in Procs : PostSummaryFail(p)
  \/ \E p \in Procs, rating \in PointsRatings :
       PatchRatingBegin(p, "t1", "sm1", rating, NoText)
  \/ \E p \in Procs : PatchRatingFind(p)
  \/ \E p \in Procs : PatchRatingUpdate(p)
  \/ \E p \in Procs : PatchRatingBonus(p)
  \/ \E p \in Procs : PatchRatingFail(p)
  \/ \E p \in Procs, session \in PointsDeleters :
       DeleteSummaryBegin(p, session, "sm1")
  \/ \E p \in Procs : DeleteSummaryFind(p)
  \/ \E p \in Procs : DeleteSummaryDelete(p)
  \/ \E p \in Procs : DeleteSummaryFail(p)
  \/ DeleteBook("a1", "b1")

SpecPoints == InitRating /\ [][NextPoints]_vars

----------------------------------------------------------------------------
(* The calendar of Date, in the server's time zone: the clock counts hours  *)
(* from 00:00 on 1 January of year 0; years have 365 days                   *)

MonthDays == <<31, 28, 31, 30, 31, 30, 31, 31, 30, 31, 30, 31>>
YearDays == 365
MonthNames == <<"Jan", "Feb", "Mar", "Apr", "May", "Jun",
                "Jul", "Aug", "Sep", "Oct", "Nov", "Dec">>

RECURSIVE DaysBefore(_)
\* the days of the year before month m (0 for January)
DaysBefore(m) == IF m = 0 THEN 0 ELSE DaysBefore(m - 1) + MonthDays[m]

\* new Date(year, month, 1) with k = 12 * year + month; a month outside
\* 0..11 carries into the year
MonthStart(k) == ((k \div 12) * YearDays + DaysBefore(k % 12)) * Day

\* new Date(year, month, day): day 0 is the last day of the month before
DateOf(k, day) == MonthStart(k) + (day - 1) * Day

\* 12 * getFullYear() + getMonth()
MonthIndex(t) ==
  LET y == t \div (YearDays * Day)
      m == CHOOSE i \in 0..11 :
             /\ MonthStart(12 * y + i) <= t
             /\ t < MonthStart(12 * y + i + 1)
  IN 12 * y + m

\* getDate()
DayOfMonth(t) == (t - MonthStart(MonthIndex(t))) \div Day + 1

\* setHours(0, 0, 0, 0)
StartOfDay(t) == t - (t % Day)

\* new Date(new Date().setMonth(new Date().getMonth() - 6)): the same day of
\* the month and time of day six months back; a day the month does not have
\* runs into the next month
SixMonthsBefore(t) ==
  DateOf(MonthIndex(t) - 6, DayOfMonth(t)) + (t % Day)

\* toLocaleString('default', { month: 'short' })
MonthName(t) == MonthNames[(MonthIndex(t) % 12) + 1]

----------------------------------------------------------------------------
(* GET dashboard stats *)

\* the rows of every user
UserRowsOfAnyone(u) == readingProgress

\* where: { userId }
UserRows(u) == {x \in readingProgress : x.userId = u}

\* the number of distinct activity days, whatever their dates
CalculateReadingStreakAllDays(rows, t) ==
  Cardinality({StartOfDay(x.updatedAt) : x \in rows})

\* 1 when there is an update today, 0 otherwise
CalculateReadingStreakFlag(rows, t) ==
  IF \E x \in rows : StartOfDay(x.updatedAt) = StartOfDay(t) THEN 1 ELSE 0

RECURSIVE StreakLoop(_, _, _)
\* lines 220-230: the loop over uniqueDates, newest first; both tests compare
\* the date with currentDate, which then moves a day back
StreakLoop(uniqueDates, currentDate, streak) ==
  IF uniqueDates = {} THEN streak
  ELSE LET dateTime == CHOOSE d \in uniqueDates : \A e \in uniqueDates : d >= e
       IN IF dateTime = currentDate
            THEN StreakLoop(uniqueDates \ {dateTime}, currentDate - Day,
                            streak + 1)
          ELSE IF dateTime = currentDate
            THEN StreakLoop(uniqueDates \ {dateTime}, currentDate - Day,
                            streak + 1)
          ELSE streak

\* lines 194-232: calculateReadingStreak over the user's rows, when the
\* query answers
CalculateReadingStreak(rows, t) ==
  IF rows = {} THEN 0
  ELSE StreakLoop({StartOfDay(x.updatedAt) : x \in rows}, StartOfDay(t), 0)

\* new Date(date.getFullYear(), date.getMonth() + 1, 0)
MonthEnd(date) == DateOf(MonthIndex(date) + 1, 0)

\* lines 244-263: the bucket of the month i months before the month of t
MonthBucket(rows, t, i) ==
  LET date == MonthStart(MonthIndex(t) - i)
      monthStart == DateOf(MonthIndex(date), 1)
      monthEnd == MonthEnd(date)
      monthStats == {x \in rows :
                       x.updatedAt >= monthStart /\ x.updatedAt <= monthEnd}
      completed == Cardinality({x \in monthStats : x.status = "COMPLETED"})
      started == Cardinality({x \in monthStats : x.status = "READING"})
  IN [month |-> MonthName(date), completed |-> completed,
      started |-> started, total |-> completed + started]

\* the buckets pushed newest first
ProcessMonthlyStatsNewestFirst(rows, t) ==
  [j \in 1..6 |-> MonthBucket(rows, t, j - 1)]

\* lines 239-267: processMonthlyStats, i = 5 down to 0
ProcessMonthlyStats(rows, t) ==
  [j \in 1..6 |-> MonthBucket(rows, t, 6 - j)]

\* lines 93-104: the rows fetched for the monthly statistics
MonthlyRows(u, t) ==
  {x \in UserRows(u) : x.updatedAt >= SixMonthsBefore(t)}

RECURSIVE SumOfPercentages(_)
\* reduce((sum, book) => sum + book.progressPercentage, 0)
SumOfPercentages(rows) ==
  IF rows = {} THEN Pct(0, 1)
  ELSE LET x == CHOOSE y \in rows : TRUE
           rest == SumOfPercentages(rows \ {x})
       IN Pct(rest.n * x.progressPercentage.d + x.progressPercentage.n * rest.d,
              rest.d * x.progressPercentage.d)

\* lines 114-134: the overview of the user's rows
Overview(u, t, streak) ==
  LET mine == UserRows(u)
      totalBooksStarted == Cardinality({x \in mine : x.status # "NOT_STARTED"})
      totalBooksCompleted == Cardinality({x \in mine : x.status = "COMPLETED"})
      currentlyReadingBooks == {x \in mine : x.status = "READING"}
  IN [totalBooksStarted |-> totalBooksStarted,
      totalBooksCompleted |-> totalBooksCompleted,
      totalBooksReading |-> Cardinality(currentlyReadingBooks),
      totalBooksPaused |-> Cardinality({x \in mine : x.status = "PAUSED"}),
      completionRate |->
        IF totalBooksStarted > 0
          THEN Round(100 * totalBooksCompleted, totalBooksStarted)
          ELSE 0,
      averageProgress |->
        IF currentlyReadingBooks # {}
          THEN Round(SumOfPercentages(currentlyReadingBooks).n,
                     SumOfPercentages(currentlyReadingBooks).d
                       * Cardinality(currentlyReadingBooks))
          ELSE 0,
      readingStreak |-> streak]

\* lines 5-184: the response; without a session 401; the streak is 0 when
\* the query of calculateReadingStreak throws (lines 233-236)
GetDashboardStats(session, streakFailed) ==
  /\ stats' =
       IF ~HasSession(session)
         THEN [NoStats EXCEPT !.code = 401]
         ELSE [code |-> 200, user |-> session, points |-> points[session],
               overview |->
                 Overview(session, now,
                          IF streakFailed THEN 0
                          ELSE CalculateReadingStreak(UserRows(session), now)),
               monthlyStats |->
                 ProcessMonthlyStats(MonthlyRows(session, now), now),
               streakFailed |-> HasSession(session) /\ streakFailed]
  /\ UNCHANGED <<points, readingProgress, summaries, comments, now, inflight,
                 last, nreq, board, catalog>>

\* lines 185-191: a query of the handler throws
DashboardStatsFail(session) ==
  /\ HasSession(session)
  /\ stats' = [NoStats EXCEPT !.code = 500, !.user = session]
  /\ UNCHANGED <<points, readingProgress, summaries, comments, now, inflight,
                 last, nreq, board, catalog>>

\* the times of the query: noon of 31 March and 09:00 of 31 August of
\* year 1, 10:00 of 1 January of year 2
StatsNows == {DateOf(14, 31) + 12, DateOf(19, 31) + 9, DateOf(24, 1) + 10}

\* the times of the stored rows, seen from the query at t: now, the start of
\* today, a day ago, the last hour of yesterday, two days ago, noon and
\* midnight of the last day of last month, the start of the month five
\* months back, six months ago to the hour and the hour before
StatsTimes(t) ==
  {t, StartOfDay(t), t - Day, StartOfDay(t) - 1, t - 2 * Day,
   MonthStart(MonthIndex(t)) - Day + 12, MonthStart(MonthIndex(t)) - Day,
   MonthStart(MonthIndex(t) - 5), SixMonthsBefore(t), SixMonthsBefore(t) - 1}

\* no row for (u, b), or one row in one of the statuses S written at one of
\* the times T
StatsRows(u, b, S, T) ==
  {{}} \cup {{BoardRow(u, b, status, t)} : status \in S, t \in T}

\* s1 has up to two rows, s2 one row of today
InitStats ==
  /\ now \in StatsNows
  /\ \E r1 \in StatsRows("s1", "b1", Statuses, StatsTimes(now)),
        r2 \in StatsRows("s1", "b2", {"READING"}, StatsTimes(now)),
        r3 \in {{BoardRow("s2", "b1", "READING", now)}} :
       /\ readingProgress = r1 \cup r2 \cup r3
       /\ points = [u \in Users |->
            CASE u = "s1" -> Earned(r1 \cup r2, {})
              [] u = "s2" -> Earned(r3, {})
              [] OTHER -> 0]
  /\ summaries = {}
  /\ comments = <<>>
  /\ inflight = [p \in Procs |-> Idle]
  /\ last = NoResponse
  /\ nreq = 0
  /\ board = NoBoard
  /\ stats = NoStats
  /\ catalog = Books

StatsSessions == {NoSession, "s1"}

NextStats ==
  \/ \E session \in StatsSessions, streakFailed \in BOOLEAN :
       GetDashboardStats(session, streakFailed)
  \/ \E session \in StatsSessions : DashboardStatsFail(session)

SpecStats == InitStats /\ [][NextStats]_vars

----------------------------------------------------------------------------
(* The leaderboard over a store in which s1 has up to two summaries *)

\* no summary of s1 for book b, or one, not rated or rated 4 or 5, written
\* an hour or just over a week before the query
AverageSummaries(id, b) ==
  {{}} \cup {{[id |-> id, authorId |-> "s1", bookId |-> b,
               rating |-> rating, createdAt |-> t]} :
               rating \in {Unrated, Num(4), Num(5)},
               t \in {BoardNow - 1, BoardNow - Week - 1}}

InitAverage ==
  /\ now = BoardNow
  /\ \E m1 \in AverageSummaries("sm1", "b1"),
        m2 \in AverageSummaries("sm2", "b2"), p2 \in {0, 100} :
       /\ summaries = m1 \cup m2
       /\ points = [u \in Users |->
            CASE u = "s1" -> Earned({}, m1 \cup m2)
              [] u = "s2" -> p2
              [] OTHER -> 0]
  /\ readingProgress = {}
  /\ comments = <<>>
  /\ inflight = [p \in Procs |-> Idle]
  /\ last = NoResponse
  /\ nreq = 0
  /\ board = NoBoard
  /\ stats = NoStats
  /\ catalog = Books

AveragePeriods == {"all", "week"}

NextAverage ==
  \E period \in AveragePeriods : GetLeaderboard("students", period, 10)

SpecAverage == InitAverage /\ [][NextAverage]_vars

----------------------------------------------------------------------------
(* The leaderboard and the dashboard over the same rows of s1 *)

\* s1 has no row or one row per book, in any status, written an hour or
\* just over a week before the query
InitEntries ==
  /\ now = BoardNow
  /\ \E r1 \in StatsRows("s1", "b1", Statuses, {BoardNow - 1, BoardNow - Week - 1}),
        r2 \in StatsRows("s1", "b2", Statuses, {BoardNow - 1, BoardNow - Week - 1}) :
       /\ readingProgress = r1 \cup r2
       /\ points = [u \in Users |->
            IF u = "s1" THEN Earned(r1 \cup r2, {}) ELSE 0]
  /\ summaries = {}
  /\ comments = <<>>
  /\ inflight = [p \in Procs |-> Idle]
  /\ last = NoResponse
  /\ nreq = 0
  /\ board = NoBoard
  /\ stats = NoStats
  /\ catalog = Books

NextEntries ==
  \/ \E period \in AveragePeriods : GetLeaderboard("students", period, 10)
  \/ GetDashboardStats("s1", FALSE)

SpecEntries == InitEntries /\ [][NextEntries]_vars

----------------------------------------------------------------------------
(* The dashboard handler query by query: the counts of Promise.all are       *)
(* separate reads of the table, and writes of other requests come between    *)

\* lines 29-58: the four count queries
CountQueries ==
  {"totalBooksStarted", "totalBooksCompleted", "totalBooksReading",
   "totalBooksPaused"}

\* the where clause of the count query q
CountWhere(q, x) ==
  CASE q = "totalBooksStarted" -> x.status # "NOT_STARTED"
    [] q = "totalBooksCompleted" -> x.status = "COMPLETED"
    [] q = "totalBooksReading" -> x.status = "READING"
    [] q = "totalBooksPaused" -> x.status = "PAUSED"

\* prisma.readingProgress.count({ where: { userId, status } })
CountOf(q, u) == Cardinality({x \in UserRows(u) : CountWhere(q, x)})

\* lines 114-116
CompletionRate(totalBooksCompleted, totalBooksStarted) ==
  IF totalBooksStarted > 0
    THEN Round(100 * totalBooksCompleted, totalBooksStarted)
    ELSE 0

\* lines 7-27: the session check; the queries of Promise.all are issued
DashboardBegin(p, session) ==
  /\ FreeSlot(p)
  /\ nreq' = nreq + 1
  /\ IF ~HasSession(session)
       THEN /\ stats' = [NoStats EXCEPT !.code = 401]
            /\ UNCHANGED inflight
       ELSE /\ inflight' = [inflight EXCEPT ![p] =
                 [pc |-> "counts", user |-> session, todo |-> CountQueries,
                  counts |-> [q \in CountQueries |-> 0]]]
            /\ UNCHANGED stats
  /\ UNCHANGED <<points, readingProgress, summaries, comments, now, last,
                 board, catalog>>

\* one of the count queries reads the table; they are answered in any order
DashboardCount(p, q) ==
  /\ inflight[p].pc = "counts"
  /\ q \in inflight[p].todo
  /\ inflight' = [inflight EXCEPT
       ![p].todo = @ \ {q},
       ![p].counts[q] = CountOf(q, inflight[p].user)]
  /\ UNCHANGED <<points, readingProgress, summaries, comments, now, last,
                 nreq, board, stats, catalog>>

\* lines 105-184: the counts are in; the streak, the monthly statistics and
\* the average progress are read, and the response is put together
DashboardRespond(p) ==
  /\ inflight[p].pc = "counts"
  /\ inflight[p].todo = {}
  /\ stats' =
       [code |-> 200, user |-> inflight[p].user,
        points |-> points[inflight[p].user],
        overview |->
          [Overview(inflight[p].user, now,
                    CalculateReadingStreak(UserRows(inflight[p].user), now))
             EXCEPT
               !.totalBooksStarted = inflight[p].counts["totalBooksStarted"],
               !.totalBooksCompleted = inflight[p].counts["totalBooksCompleted"],
               !.totalBooksReading = inflight[p].counts["totalBooksReading"],
               !.totalBooksPaused = inflight[p].counts["totalBooksPaused"],
               !.completionRate =
                 CompletionRate(inflight[p].counts["totalBooksCompleted"],
                                inflight[p].counts["totalBooksStarted"])],
        monthlyStats |->
          ProcessMonthlyStats(MonthlyRows(inflight[p].user, now), now),
        streakFailed |-> FALSE]
  /\ inflight' = [inflight EXCEPT ![p] = Idle]
  /\ UNCHANGED <<points, readingProgress, summaries, comments, now, last,
                 nreq, board, catalog>>

\* lines 185-191: a query throws
DashboardFail(p) ==
  /\ inflight[p].pc = "counts"
  /\ stats' = [NoStats EXCEPT !.code = 500, !.user = inflight[p].user]
  /\ inflight' = [inflight EXCEPT ![p] = Idle]
  /\ UNCHANGED <<points, readingProgress, summaries, comments, now, last,
                 nreq, board, catalog>>

\* s1 is reading b1 and has a row for b2 that is not started
InitDash ==
  /\ now = BoardNow
  /\ readingProgress = {BoardRow("s1", "b1", "READING", BoardNow - 1),
                        BoardRow("s1", "b2", "NOT_STARTED", BoardNow - 1)}
  /\ points = [u \in Users |->
       IF u = "s1" THEN Earned(readingProgress, {}) ELSE 0]
  /\ summaries = {}
  /\ comments = <<>>
  /\ inflight = [p \in Procs |-> Idle]
  /\ last = NoResponse
  /\ nreq = 0
  /\ board = NoBoard
  /\ stats = NoStats
  /\ catalog = Books

DashSessions == {NoSession, "s1"}
DashStatuses == {"READING", "PAUSED", "COMPLETED"}

\* the dashboard of s1 while s1's progress requests are served
NextDash ==
  \/ \E p \in Procs, session \in DashSessions : DashboardBegin(p, session)
  \/ \E p \in Procs, q \in CountQueries : DashboardCount(p, q)
  \/ \E p \in Procs : DashboardRespond(p)
  \/ \E p \in Procs : DashboardFail(p)
  \/ \E p \in Procs, bookId \in Books, status \in DashStatuses :
       PostProgressBegin(p, "s1", bookId, status, Num(1), Undef)
  \/ \E p \in Procs : PostProgressUpsert(p)
  \/ \E p \in Procs : PostProgressAward(p)
  \/ \E p \in Procs : PostProgressFail(p)

SpecDash == InitDash /\ [][NextDash]_vars

----------------------------------------------------------------------------
(* Steps of the progress handler, as seen in one transition *)

Min(a, b) == IF a <= b THEN a ELSE b

\* the upsert of the request in slot p has just been carried out
UpsertStep(p) ==
  /\ inflight[p].pc = "upsert"
  /\ \/ inflight'[p].pc = "award"
     \/ inflight'[p] = Idle /\ last'.code = 200

\* the request in slot p has just been answered with success
Done200(p) ==
  /\ inflight[p] # Idle
  /\ inflight'[p] = Idle
  /\ last'.code = 200

\* a request has just been answered without going past its checks
Rejected == nreq' = nreq + 1 /\ inflight' = inflight

\* currentPage of a body, 0 when absent
BodyPage(r) == IF r.currentPage.t = "number" THEN r.currentPage.n ELSE 0

\* no two rows for the same (userId, bookId)
UniqueKey(rows) ==
  \A x, y \in rows : x.userId = y.userId /\ x.bookId = y.bookId => x = y

----------------------------------------------------------------------------
(* C1 *)

\* the page total a request is to use: the override when it is a non-zero
\* number, else the book's page count, else 0
C1_Effective(r) ==
  IF r.totalPages.t = "number" /\ r.totalPages.n # 0 THEN r.totalPages.n
  ELSE IF BookPages(r.bookId).t = "number" /\ BookPages(r.bookId).n # 0
    THEN BookPages(r.bookId).n
  ELSE 0

\* pct is min(100, 100*page/total) when total > 0 and page >= 0, inside
\* [0,100]; and it is 0 when total = 0
C1_PctOf(pct, page, total) ==
  /\ page >= 0 /\ total > 0 =>
       /\ pct.n * total = pct.d * Min(100 * total, 100 * page)
       /\ pct.n >= 0
       /\ pct.n <= 100 * pct.d
  /\ total = 0 => pct.n = 0

\* C1: every progress request in flight carries the effective page total
\* (override if non-zero, else the book's pages, else 0) and the percentage
\* min(100, 100*currentPage/effectivePages) for currentPage >= 0 and
\* effectivePages > 0, within [0,100], and 0 for effectivePages = 0; every
\* stored row has the percentage that belongs to its currentPage and
\* totalPages.
C1_Percentage ==
  /\ \A p \in Procs : inflight[p].pc \in {"upsert", "award"} =>
       /\ inflight[p].pages = C1_Effective(inflight[p])
       /\ C1_PctOf(inflight[p].progressPercentage, BodyPage(inflight[p]),
                   C1_Effective(inflight[p]))
  /\ \A x \in readingProgress :
       C1_PctOf(x.progressPercentage, x.currentPage, x.totalPages)

\* stored: page 3 of 2 capped at 100, and page 3 of a book without pages at 0
C1_Witness ==
  \E x, y \in readingProgress :
    /\ x.bookId = "b1" /\ x.totalPages = 2 /\ x.currentPage = 3
    /\ PctIs(x.progressPercentage, 100)
    /\ y.bookId = "b2" /\ y.totalPages = 0 /\ y.currentPage = 3
    /\ PctIs(y.progressPercentage, 0)

----------------------------------------------------------------------------
(* C2 *)

\* what the upsert of request r leaves in the table, given the status the
\* row is to have
C2_Written(p, status) ==
  LET r == inflight[p]
      mine == RowsOf(readingProgress', r.user, r.bookId)
  IN /\ Cardinality(mine) = 1
     /\ \A x \in mine :
          /\ x.status = status
          /\ x.currentPage = BodyPage(r)
          /\ x.totalPages = r.pages
          /\ x.progressPercentage = r.progressPercentage
     /\ readingProgress' \ mine =
          readingProgress \ RowsOf(readingProgress, r.user, r.bookId)

\* C2 as stated: at most one row per (userId, bookId), and after a write the
\* row's status, currentPage, totalPages and progressPercentage are all those
\* of that write (the status of a write without one being NOT_STARTED, as on
\* create): the earlier write's values are fully replaced.
C2_Original ==
  [][/\ UniqueKey(readingProgress')
     /\ \A p \in Procs : UpsertStep(p) =>
          C2_Written(p, IF inflight[p].status = NoStatus THEN "NOT_STARTED"
                        ELSE inflight[p].status)
     /\ (\A p \in Procs : ~UpsertStep(p)) => readingProgress' = readingProgress
    ]_vars

\* the status the row has after the write of request r: the request's, or
\* when the request has none the stored one (NOT_STARTED for a new row)
C2_StatusAfter(r) ==
  IF r.status # NoStatus THEN r.status
  ELSE IF RowsOf(readingProgress, r.user, r.bookId) = {} THEN "NOT_STARTED"
  ELSE (CHOOSE x \in RowsOf(readingProgress, r.user, r.bookId) : TRUE).status

\* C2 (amended): at most one row per (userId, bookId); a write never adds a
\* second row for its pair and leaves the other rows alone; after it the
\* row's currentPage, totalPages and progressPercentage are those of that
\* write, and its status is that of the write when the write supplies one and
\* otherwise the status already stored (NOT_STARTED for a new row); only a
\* write changes the table.
C2_Upsert ==
  [][/\ UniqueKey(readingProgress')
     /\ \A p \in Procs : UpsertStep(p) =>
          C2_Written(p, C2_StatusAfter(inflight[p]))
     /\ (\A p \in Procs : ~UpsertStep(p)) => readingProgress' = readingProgress
    ]_vars

\* a READING write at 50% and a COMPLETED write, both awarded, went to the
\* same pair: there is one row, and it is COMPLETED
C2_Witness ==
  /\ points["s1"] = 125
  /\ Cardinality(readingProgress) = 1
  /\ \A x \in readingProgress : x.status = "COMPLETED" /\ x.currentPage = 1

----------------------------------------------------------------------------
(* C3 *)

\* the award the claim gives request r
C3_Award(r) ==
  IF r.status = "COMPLETED" THEN 100
  ELSE IF r.status = "READING"
          /\ r.progressPercentage.n >= 50 * r.progressPercentage.d THEN 25
  ELSE 0

\* C3: a successful progress request adds exactly 100 to its user's points
\* when its status is COMPLETED (whatever the stored status), exactly 25 when
\* its status is READING and its percentage is at least 50, and nothing
\* otherwise; nobody else's points change and no other step changes points;
\* the write of a COMPLETED request leaves completedAt set.
C3_Points ==
  [][/\ \A p \in Procs : Done200(p) =>
          points' = [points EXCEPT ![inflight[p].user] =
                       @ + C3_Award(inflight[p])]
     /\ (\A p \in Procs : ~Done200(p)) => points' = points
     /\ \A p \in Procs : UpsertStep(p) /\ inflight[p].status = "COMPLETED" =>
          \A x \in RowsOf(readingProgress', inflight[p].user,
                          inflight[p].bookId) : x.completedAt # NoTime
    ]_vars

\* a book completed twice: 200 points and one row, completedAt set
C3_Witness ==
  /\ points["s1"] = 200
  /\ Cardinality(readingProgress) = 1
  /\ \E x \in readingProgress :
       /\ x.userId = "s1" /\ x.bookId = "b1" /\ x.status = "COMPLETED"
       /\ PctIs(x.progressPercentage, 50) /\ x.completedAt # NoTime

----------------------------------------------------------------------------
(* C4 *)

\* C4: a progress request is answered 401 when it has no session, else 400
\* when its bookId is missing, else 404 when its bookId is not in the
\* catalog, and in no other case is it turned away; a request turned away
\* changes no row and nobody's points.
C4_Rejections ==
  [][nreq' = nreq + 1 =>
       IF Rejected
         THEN /\ last'.kind = "progress"
              /\ last'.code = IF last'.user = NoSession THEN 401
                              ELSE IF last'.id = NoId THEN 400
                              ELSE 404
              /\ last'.code = 404 => last'.id \notin Books
              /\ UNCHANGED <<points, readingProgress>>
         ELSE \E p \in Procs :
                /\ inflight[p] = Idle
                /\ inflight'[p].pc = "upsert"
                /\ inflight'[p].user # NoSession
                /\ inflight'[p].bookId \in Books
    ]_vars

\* an unknown book turned away on a store that already holds a row and points
C4_Witness ==
  /\ last.kind = "progress"
  /\ last.code = 404
  /\ readingProgress # {}
  /\ \E u \in Users : points[u] > 0

----------------------------------------------------------------------------
(* Steps of the rating handler, as seen in one transition *)

RatingPcs == {"find", "update", "comment", "bonus"}

\* the request in slot p has just passed its checks
RatingAccepted(p) == inflight[p] = Idle /\ inflight'[p].pc = "find"

\* the request in slot p has just taken the step that leaves pc
RatingStep(p, pc) ==
  /\ inflight[p].pc = pc
  /\ inflight'[p] # inflight[p]
  /\ ~(inflight'[p] = Idle /\ last'.code = 500)

\* a number from 1 to 5, whole or not
InRange(x) == x.t = "number" /\ x.d <= x.n /\ x.n <= 5 * x.d

IsWhole(x) == x.t = "number" /\ x.n % x.d = 0

\* a string with a character that is not white space
NonBlank(f) ==
  f.t = "string" /\ \E i \in 1..Len(f.s) : f.s[i] \notin Whitespace

Elevated(u) == u # NoSession /\ Role(u) \in {"TEACHER", "ADMIN"}

----------------------------------------------------------------------------
(* C5 *)

\* C5: a rating request of a TEACHER or ADMIN is answered 400 exactly when
\* its rating is not a number or lies outside 1..5 (so 0 and 6 are, 1 and 5
\* are not), and such an answer leaves summaries, comments and points as they
\* were; a request that is not turned away carries a rating from 1 to 5, and
\* on an existing summary its lookup goes on to the update, never to 404.
C5_Validation ==
  [][/\ Rejected /\ Elevated(last'.user) =>
          /\ last'.kind = "rate"
          /\ last'.code = 400
          /\ ~InRange(last'.arg)
     /\ Rejected /\ last'.code = 400 =>
          UNCHANGED <<summaries, comments, points>>
     /\ \A p \in Procs : RatingAccepted(p) => InRange(inflight'[p].rating)
     /\ \A p \in Procs :
          RatingStep(p, "find") /\ inflight[p].id \in SummaryIds(summaries) =>
            inflight'[p].pc = "update"
    ]_vars

\* a rating of 6 turned away after a rating of 5 went through
C5_Witness ==
  /\ last.kind = "rate" /\ last.code = 400 /\ last.arg = Num(6)
  /\ SummaryById(summaries, "sm1").rating = Num(5)
  /\ points["s1"] = 100

----------------------------------------------------------------------------
(* C6 *)

\* C6: a rating that is not a whole number never gets past the validation of
\* the rating handler, so that no such value is stored as a rating or turned
\* into bonus points.
C6_WholeRatings ==
  /\ \A p \in Procs : inflight[p].pc \in RatingPcs => IsWhole(inflight[p].rating)
  /\ \A x \in summaries : x.rating # Unrated => IsWhole(x.rating)

----------------------------------------------------------------------------
(* C7 *)

\* C7: the update of an accepted call with rating r on summary S sets
\* S.rating = r whatever it was and touches no other summary; the call then
\* creates one comment on S, by the rater, with the text "Teacher Feedback: "
\* followed by the feedback, exactly when the feedback is not blank; and it
\* ends by adding exactly 10*r to the points of S's author and of nobody
\* else.  No other step changes summaries, comments or points.
C7_Rating ==
  [][/\ \A p \in Procs : RatingStep(p, "update") =>
          /\ SummaryById(summaries', inflight[p].id).rating = inflight[p].rating
          /\ \A x \in summaries : x.id # inflight[p].id => x \in summaries'
          /\ SummaryIds(summaries') = SummaryIds(summaries)
          /\ Cardinality(summaries') = Cardinality(summaries)
          /\ inflight'[p].pc =
               IF NonBlank(inflight[p].feedback) THEN "comment" ELSE "bonus"
     /\ \A p \in Procs : RatingStep(p, "comment") =>
          /\ comments' = Append(comments,
               [content |-> FeedbackPrefix \o inflight[p].feedback.s,
                authorId |-> inflight[p].user,
                summaryId |-> inflight[p].id])
          /\ inflight'[p].pc = "bonus"
     /\ \A p \in Procs : RatingStep(p, "bonus") =>
          /\ inflight[p].author = SummaryById(summaries, inflight[p].id).authorId
          /\ \A u \in Users \ {inflight[p].author} : points'[u] = points[u]
          /\ (points'[inflight[p].author] - points[inflight[p].author])
               * inflight[p].rating.d = 10 * inflight[p].rating.n
          /\ last'.code = 200
     /\ (\A p \in Procs : ~RatingStep(p, "update")) => summaries' = summaries
     /\ (\A p \in Procs : ~RatingStep(p, "comment")) => comments' = comments
     /\ (\A p \in Procs : ~RatingStep(p, "bonus")) => points' = points
    ]_vars

\* sm1 rated 5 and then 1, once with the feedback " ok": the author has
\* gained 60, the rater nothing, the rating is 1 and there is one comment
C7_Witness ==
  /\ SummaryById(summaries, "sm1").rating = Num(1)
  /\ points["s1"] = 110
  /\ points["t1"] = 50
  /\ Len(comments) = 1
  /\ comments[1] = [content |-> FeedbackPrefix \o <<" ", "o", "k">>,
                    authorId |-> "t1", summaryId |-> "sm1"]
  /\ \A p \in Procs : inflight[p] = Idle

----------------------------------------------------------------------------
(* C8 *)

\* C8: a rating request without a session is answered 401 and one of a
\* STUDENT 403, both leaving summaries, comments and points as they were;
\* every rating request past its checks is a TEACHER's or an ADMIN's, and a
\* summary's rating changes only in the update of such a request.
C8_Roles ==
  [][/\ Rejected =>
          /\ last'.user = NoSession => last'.code = 401
          /\ last'.user # NoSession /\ Role(last'.user) = "STUDENT" =>
               last'.code = 403
          /\ last'.code \in {401, 403} =>
               UNCHANGED <<summaries, comments, points>>
     /\ \A p \in Procs : RatingAccepted(p) => Elevated(inflight'[p].user)
     /\ summaries' # summaries =>
          \E p \in Procs : /\ RatingStep(p, "update")
                           /\ Elevated(inflight[p].user)
    ]_vars

\* a student turned away with 403 from a summary a teacher or admin has rated
C8_Witness ==
  /\ last.kind = "rate" /\ last.code = 403 /\ last.user = "s1"
  /\ SummaryById(summaries, "sm1").rating = Num(1)
  /\ points["s1"] = 60

----------------------------------------------------------------------------
(* The leaderboard, as returned *)

\* the board of a query that was made
Listed == board # NoBoard

\* the users of the list, in order
ListedUsers == [i \in DOMAIN board.list |-> board.list[i].userId]

\* C9: the ranks of the leaderboard are 1..N in order, the entries are in
\* non-increasing order of the users' stored points, and users with equal
\* points have distinct, consecutive ranks
C9_Ranks ==
  Listed =>
    /\ \A i \in DOMAIN board.list :
         /\ board.list[i].rank = i
         /\ board.list[i].points = points[board.list[i].userId]
    /\ \A i, j \in DOMAIN board.list :
         /\ i < j => board.list[i].points >= board.list[j].points
         /\ i # j => board.list[i].rank # board.list[j].rank
         /\ (j = i + 1 /\ board.list[i].points = board.list[j].points)
              => board.list[j].rank = board.list[i].rank + 1

\* two users with equal points at ranks 1 and 2
C9_Witness ==
  /\ Listed
  /\ Len(board.list) >= 2
  /\ board.list[1].points = board.list[2].points
  /\ board.list[1].points > 0
  /\ board.list[1].rank = 1
  /\ board.list[2].rank = 2

\* the stamp is inside the window of the period, counted from the query
InPeriod(stamp, period) ==
  CASE period = "week" -> now - stamp <= Week
    [] period = "month" -> now - stamp <= Month
    [] OTHER -> TRUE

\* user u has a progress row or a summary inside the window of the period
ActiveIn(u, period) ==
  \/ \E x \in readingProgress : x.userId = u /\ InPeriod(x.updatedAt, period)
  \/ \E x \in summaries : x.authorId = u /\ InPeriod(x.createdAt, period)

\* every derived statistic of the entry is 0
ZeroStats(e) ==
  /\ e.booksCompleted = 0
  /\ e.booksReading = 0
  /\ e.totalBooksStarted = 0
  /\ e.totalPagesRead = 0
  /\ e.summariesWritten = 0
  /\ e.averageSummaryRating.n = 0
  /\ e.readingStreak = 0
  /\ e.completionRate = 0

\* C10: for every period the list is the top `limit` users by stored points
\* among those of the role filter: as many as the limit allows and never
\* more, no user left out has more points than a listed one, the points
\* shown are the stored points, and a user with no rows inside the window is
\* listed with every derived statistic 0
C10_Window ==
  Listed =>
    LET U == UsersWhere(board.type)
        L == board.list
        In == {L[i].userId : i \in DOMAIN L}
    IN /\ Len(L) <= board.limit
       /\ Len(L) = Min2(board.limit, Cardinality(U))
       /\ In \subseteq U
       /\ Cardinality(In) = Len(L)
       /\ \A u \in In, v \in U \ In : points[u] >= points[v]
       /\ \A i, j \in DOMAIN L : i < j => points[L[i].userId] >= points[L[j].userId]
       /\ \A i \in DOMAIN L :
            /\ L[i].points = points[L[i].userId]
            /\ ~ActiveIn(L[i].userId, board.period) => ZeroStats(L[i])

\* the week's board cut to its limit, led by a user whose points come from
\* rows older than the week
C10_Witness ==
  /\ Listed
  /\ board.period = "week"
  /\ Len(board.list) = board.limit
  /\ board.limit < Cardinality(UsersWhere(board.type))
  /\ \E i \in DOMAIN board.list :
       /\ board.list[i].points > 0
       /\ \E x \in readingProgress : x.userId = board.list[i].userId
       /\ ~ActiveIn(board.list[i].userId, "week")
       /\ ZeroStats(board.list[i])

----------------------------------------------------------------------------
(* The dashboard statistics, as returned *)

\* a dashboard response with statistics in it
Answered == stats.code = 200

\* the progress records of user u
RecordsOf(u) == {x \in readingProgress : x.userId = u}

\* C11: processMonthlyStats returns exactly 6 buckets, one per calendar month
\* for the 6 consecutive months ending with the current month, oldest first,
\* also for the empty input (all counts 0); in every bucket total =
\* completed + started
C11_Buckets ==
  Answered =>
    /\ Len(stats.monthlyStats) = 6
    /\ \A j \in 1..6 :
         /\ stats.monthlyStats[j].month =
              MonthNames[((MonthIndex(now) - 6 + j) % 12) + 1]
         /\ stats.monthlyStats[j].total =
              stats.monthlyStats[j].completed + stats.monthlyStats[j].started
         /\ RecordsOf(stats.user) = {} =>
              /\ stats.monthlyStats[j].completed = 0
              /\ stats.monthlyStats[j].started = 0
              /\ stats.monthlyStats[j].total = 0

\* the six buckets of a query in January, from August of the year before,
\* with a row counted in one of them
C11_Witness ==
  /\ Answered
  /\ Len(stats.monthlyStats) = 6
  /\ stats.monthlyStats[1].month = "Aug"
  /\ stats.monthlyStats[5].month = "Dec"
  /\ stats.monthlyStats[6].month = "Jan"
  /\ stats.monthlyStats[6].total = 1
  /\ stats.monthlyStats[1].total = 1

----------------------------------------------------------------------------
(* Summaries, as created *)

\* the summaries of author a for book b
SummariesOf(a, b) == {x \in summaries : x.authorId = a /\ x.bookId = b}

\* C12: after any sequence or interleaving of summary create requests there
\* is at most one summary per (author, book)
C12_OnePerBook ==
  \A a \in Users, b \in Books : Cardinality(SummariesOf(a, b)) <= 1

----------------------------------------------------------------------------
(* Points *)

----------------------------------------------------------------------------
(* The dashboard streak, as returned *)

\* a response whose streak comes from the rows (the streak query answered)
StreakAnswered == Answered /\ ~stats.streakFailed

\* the calendar days, as their first hour, on which the user has an update
ActivityDays(u) == {x.updatedAt - (x.updatedAt % Day) : x \in RecordsOf(u)}

\* the first hour of the day of the query
Today == now - (now % Day)

RECURSIVE ConsecutiveDays(_, _)
\* the number of consecutive days of the set, counted backward from day
ConsecutiveDays(days, day) ==
  IF day \in days THEN 1 + ConsecutiveDays(days, day - Day) ELSE 0

\* C14: the streak is the number of consecutive calendar days with at least
\* one progress update, counted backward from today, or from yesterday when
\* there is no update today, stopping at the first day with no update
C14_Streak ==
  StreakAnswered =>
    stats.overview.readingStreak =
      IF Today \in ActivityDays(stats.user)
        THEN ConsecutiveDays(ActivityDays(stats.user), Today)
        ELSE ConsecutiveDays(ActivityDays(stats.user), Today - Day)

\* C15: the streak is 0 for a user with no progress updates, 1 for a user
\* whose only activity day is today, and 0 whenever the most recent activity
\* day is more than one day before today
C15_Edges ==
  StreakAnswered =>
    /\ ActivityDays(stats.user) = {} => stats.overview.readingStreak = 0
    /\ ActivityDays(stats.user) = {Today} => stats.overview.readingStreak = 1
    /\ (/\ ActivityDays(stats.user) # {}
        /\ \A d \in ActivityDays(stats.user) : d < Today - Day)
         => stats.overview.readingStreak = 0

\* two rows of today, at different hours, make a streak of 1
C15_Witness ==
  /\ StreakAnswered
  /\ Cardinality(RecordsOf(stats.user)) = 2
  /\ \E x, y \in RecordsOf(stats.user) : x.updatedAt # y.updatedAt
  /\ ActivityDays(stats.user) = {Today}
  /\ stats.overview.readingStreak = 1

----------------------------------------------------------------------------
(* The dashboard of a user without progress records *)

\* C16: for an authenticated user with no progress records the response has
\* totalBooksStarted, totalBooksCompleted, totalBooksReading and
\* totalBooksPaused all 0, completionRate 0, averageProgress 0,
\* readingStreak 0, and monthlyStats of 6 buckets with all counts 0
C16_Empty ==
  (Answered /\ RecordsOf(stats.user) = {}) =>
    /\ stats.overview.totalBooksStarted = 0
    /\ stats.overview.totalBooksCompleted = 0
    /\ stats.overview.totalBooksReading = 0
    /\ stats.overview.totalBooksPaused = 0
    /\ stats.overview.completionRate = 0
    /\ stats.overview.averageProgress = 0
    /\ stats.overview.readingStreak = 0
    /\ Len(stats.monthlyStats) = 6
    /\ \A j \in 1..6 :
         /\ stats.monthlyStats[j].completed = 0
         /\ stats.monthlyStats[j].started = 0
         /\ stats.monthlyStats[j].total = 0

\* s1 has no records while another user has one of today
C16_Witness ==
  /\ Answered
  /\ stats.user = "s1"
  /\ RecordsOf("s1") = {}
  /\ \E x \in readingProgress : x.userId # "s1" /\ x.status = "READING"
  /\ ~stats.streakFailed
  /\ Len(stats.monthlyStats) = 6

----------------------------------------------------------------------------
(* The monthly buckets against the calendar *)

\* the records the monthly query fetched for the response
Fetched ==
  {x \in RecordsOf(stats.user) :
     /\ x.updatedAt >= SixMonthsBefore(now)
     /\ x.status \in {"COMPLETED", "READING"}}

\* the fetched records of status s stamped in the calendar month of bucket j
InBucketMonth(j, s) ==
  {x \in Fetched : x.status = s /\ MonthIndex(x.updatedAt) = MonthIndex(now) - 6 + j}

\* C17: every fetched progress record with status COMPLETED or READING is
\* counted in exactly one of the 6 buckets, the one for the calendar month
\* containing its timestamp, also when it is stamped at any time on the last
\* day of a month or comes from the oldest fetched month
C17_EveryRecordCounted ==
  Answered =>
    /\ \A x \in Fetched :
         \E j \in 1..6 : MonthIndex(x.updatedAt) = MonthIndex(now) - 6 + j
    /\ \A j \in 1..6 :
         /\ stats.monthlyStats[j].completed =
              Cardinality(InBucketMonth(j, "COMPLETED"))
         /\ stats.monthlyStats[j].started =
              Cardinality(InBucketMonth(j, "READING"))

----------------------------------------------------------------------------
(* The leaderboard's streak and average rating *)

\* the progress rows and the summaries of user u inside the board's window
WindowRows(u) ==
  {x \in readingProgress : x.userId = u /\ InPeriod(x.updatedAt, board.period)}
WindowSummaries(u) ==
  {x \in summaries : x.authorId = u /\ InPeriod(x.createdAt, board.period)}

\* C19: the leaderboard's readingStreak of a user equals the result of the
\* dashboard streak calculator applied to that user's window-filtered
\* progress rows, for every set of rows
C19_SameStreak ==
  Listed =>
    \A i \in DOMAIN board.list :
      board.list[i].readingStreak =
        CalculateReadingStreak(WindowRows(board.list[i].userId), now)

\* the summaries of the set that have a rating
Rated(S) == {x \in S : x.rating.t = "number"}

\* C20: the leaderboard's averageSummaryRating of a user is the mean of the
\* ratings of only those window-filtered summaries that have a rating,
\* rounded to one decimal, and 0 when the user has no rated summary
C20_MeanOfRated ==
  Listed =>
    \A i \in DOMAIN board.list :
      LET rated == Rated(WindowSummaries(board.list[i].userId))
      IN board.list[i].averageSummaryRating.n * 10 =
           board.list[i].averageSummaryRating.d *
             (IF rated = {} THEN 0
              ELSE Round(10 * SumOfRatings(rated).n,
                         SumOfRatings(rated).d * Cardinality(rated)))

----------------------------------------------------------------------------
(* The counts of a leaderboard entry *)

\* the page count of book b, 0 when the book has none
PageCount(b) == IF BookPages(b).t = "number" THEN BookPages(b).n ELSE 0

\* C21: over the user's window-filtered progress rows, booksCompleted is the
\* number of COMPLETED rows, booksReading the number of READING rows,
\* totalPagesRead the sum of book pages over COMPLETED rows only (a missing
\* page count counts 0), and completionRate is
\* round(100 * booksCompleted / totalBooksStarted), 0 when totalBooksStarted
\* is 0, and within 0..100
C21_Counts ==
  Listed =>
    \A i \in DOMAIN board.list :
      LET e == board.list[i]
          done == {x \in WindowRows(e.userId) : x.status = "COMPLETED"}
      IN /\ e.booksCompleted = Cardinality(done)
         /\ e.booksReading =
              Cardinality({x \in WindowRows(e.userId) : x.status = "READING"})
         /\ e.totalPagesRead =
              SumOver([x \in done |-> PageCount(x.bookId)], done)
         /\ e.completionRate =
              IF e.totalBooksStarted = 0 THEN 0
              ELSE (200 * e.booksCompleted + e.totalBooksStarted)
                     \div (2 * e.totalBooksStarted)
         /\ e.completionRate \in 0..100

\* the week's board: one of two rows is inside the window, it is COMPLETED
\* and its book has no page count
C21_Witness ==
  /\ Listed
  /\ board.period = "week"
  /\ \E i \in DOMAIN board.list :
       /\ Cardinality(RecordsOf(board.list[i].userId)) = 2
       /\ board.list[i].totalBooksStarted = 1
       /\ board.list[i].booksCompleted = 1
       /\ board.list[i].totalPagesRead = 0
       /\ board.list[i].completionRate = 100

----------------------------------------------------------------------------
(* The completion rate on the dashboard and on the leaderboard *)

\* C29: for the same user and the same stored progress rows, the
\* completionRate of the dashboard equals the completionRate of the
\* all-time leaderboard, also when some rows have status NOT_STARTED
C29_SameCompletionRate ==
  (Listed /\ board.period = "all" /\ Answered) =>
    \A i \in DOMAIN board.list :
      board.list[i].userId = stats.user =>
        board.list[i].completionRate = stats.overview.completionRate

----------------------------------------------------------------------------
(* The timestamps of a progress record *)

\* the stored row of the pair of request r, before and after its write
RowBefore(r) == RowsOf(readingProgress, r.user, r.bookId)
RowAfter(r) == RowsOf(readingProgress', r.user, r.bookId)

\* the stored value of the timestamp column f before the write of r: unset
\* when there is no row yet
StoredTime(r, f) ==
  IF RowBefore(r) = {} THEN NoTime
  ELSE IF f = "startedAt" THEN (CHOOSE x \in RowBefore(r) : TRUE).startedAt
  ELSE (CHOOSE x \in RowBefore(r) : TRUE).completedAt

\* C22: a write with status READING, PAUSED or COMPLETED sets startedAt to the
\* time of that write, every time; completedAt is written only by a COMPLETED
\* write, every time; a write with status NOT_STARTED or with no status leaves
\* the stored startedAt and completedAt as they are, and a create without
\* status stores NOT_STARTED
C22_Timestamps ==
  [][\A p \in Procs : UpsertStep(p) =>
       \A x \in RowAfter(inflight[p]) :
         /\ inflight[p].status \in {"READING", "PAUSED", "COMPLETED"} =>
              x.startedAt = inflight[p].at
         /\ inflight[p].status = "COMPLETED" => x.completedAt = inflight[p].at
         /\ inflight[p].status # "COMPLETED" =>
              x.completedAt = StoredTime(inflight[p], "completedAt")
         /\ inflight[p].status \in {"NOT_STARTED", NoStatus} =>
              x.startedAt = StoredTime(inflight[p], "startedAt")
         /\ (inflight[p].status = NoStatus /\ RowBefore(inflight[p]) = {}) =>
              x.status = "NOT_STARTED"
    ]_vars

\* a row completed at hour 0 and written again as READING at hour 1: the
\* start is the later write's, the completion the earlier one's
C22_Witness ==
  \E x \in readingProgress :
    /\ x.status = "READING"
    /\ x.startedAt = 1
    /\ x.completedAt = 0

----------------------------------------------------------------------------
(* completedAt and the stored status; the ranges of the stored numbers *)

\* C25: in every reachable state a progress record whose completedAt is set
\* has status COMPLETED; a record written as COMPLETED and written again as
\* READING, PAUSED or NOT_STARTED has no completedAt any more
C25_CompletedOnly ==
  \A x \in readingProgress : x.completedAt # NoTime => x.status = "COMPLETED"

\* C26: in every reachable state every stored progress record has
\* 0 <= progressPercentage <= 100 and currentPage >= 0, whatever body the
\* handler accepted (a negative currentPage, a negative totalPages override)
C26_Ranges ==
  \A x \in readingProgress :
    /\ PctGeq(x.progressPercentage, 0)
    /\ PctLeq(x.progressPercentage, 100)
    /\ x.currentPage >= 0

----------------------------------------------------------------------------
(* A failure of the award write *)

\* the positions at which the primary write is done and the award is next
AwardPcs == {"award", "bonus", "reward"}

\* the request in slot p takes its award step, whichever way it ends
AwardStep(p) == inflight[p].pc \in AwardPcs /\ inflight'[p] # inflight[p]

\* the user the award of slot p is for
Awardee(p) ==
  IF inflight[p].pc = "bonus" THEN inflight[p].author ELSE inflight[p].user

\* C23: when the write that awards points fails after the primary write
\* (progress upsert, rating update, summary create) succeeded, the handler
\* answers 500, the primary record keeps its new value and the points keep
\* their old value; nothing is rolled back and nothing is retried
C23_AwardFailure ==
  [][\A p \in Procs : AwardStep(p) =>
       /\ inflight'[p] = Idle
       /\ nreq' = nreq
       /\ \/ /\ last'.code \in {200, 201}
             /\ points'[Awardee(p)] > points[Awardee(p)]
          \/ /\ last'.code = 500
             /\ points' = points
       /\ readingProgress' = readingProgress
       /\ summaries' = summaries
       /\ comments' = comments
    ]_vars

\* the only request so far completed b1 for s1 and was answered 500: the row
\* is stored as COMPLETED, the 100 points were never added
C23_Witness ==
  /\ nreq = 1
  /\ \A p \in Procs : inflight[p] = Idle
  /\ last.kind = "progress"
  /\ last.code = 500
  /\ \E x \in readingProgress :
       x.userId = "s1" /\ x.bookId = "b1" /\ x.status = "COMPLETED"
  /\ points["s1"] = 50

----------------------------------------------------------------------------
(* The stored rating *)

\* a stored rating is unset or a number from 1 to 5
RatingInRange(table) ==
  \A x \in table :
    \/ x.rating = Unrated
    \/ /\ x.rating.t = "number"
       /\ x.rating.n >= x.rating.d
       /\ x.rating.n <= 5 * x.rating.d

\* C24: in every reachable state a summary's stored rating is unset or a
\* value between 1 and 5 inclusive, and once a rating is set no operation
\* other than deleting the summary makes it unset again
C24_RatingKept ==
  [][/\ RatingInRange(summaries)
     /\ RatingInRange(summaries')
     /\ \A x \in summaries : \A y \in summaries' :
          (x.rating # Unrated /\ y.id = x.id) => y.rating # Unrated
    ]_vars

\* sm1 holds the rating 5 and the last request, a rating of 6, was refused
C24_Witness ==
  /\ \E x \in summaries : x.id = "sm1" /\ x.rating = Num(5)
  /\ last.kind = "rate"
  /\ last.code = 400
  /\ last.arg = Num(6)

----------------------------------------------------------------------------
(* The points of a summary creation and of a summary deletion *)

\* the request in slot p is answered 201
SummaryCreated(p) ==
  /\ inflight[p].pc = "reward"
  /\ inflight'[p] = Idle
  /\ last'.code = 201

\* a summary creation is refused in this step: by the checks before the
\* first storage call, or by the existence check
SummaryRefused ==
  /\ last'.kind = "summary"
  /\ last'.code \in {400, 401, 404, 409}
  /\ \/ nreq' # nreq
     \/ \E p \in Procs : inflight[p].pc = "exists" /\ inflight'[p] = Idle

\* a step of the delete handler: its checks, its lookup or its delete
SummaryDeleted ==
  \/ last'.kind = "delete" /\ nreq' # nreq
  \/ \E p \in Procs : /\ inflight[p].pc \in {"lookup", "delete"}
                      /\ inflight'[p] # inflight[p]

\* C27: a successful summary creation adds exactly 50 points to the author
\* and to no one else; a creation refused with 400, 401, 404 or 409 changes
\* no points; deleting a summary changes no points
C27_SummaryPoints ==
  [][/\ \A p \in Procs : SummaryCreated(p) =>
          points' = [points EXCEPT ![inflight[p].user] = @ + 50]
     /\ SummaryRefused => points' = points
     /\ SummaryDeleted => points' = points
    ]_vars

\* s1's summary sm1 was deleted by the admin and s1's summary of b2 was
\* created: s1 holds the first 50 points and the 50 of the new summary
C27_Witness ==
  /\ last.kind = "summary"
  /\ last.code = 201
  /\ "sm1" \notin SummaryIds(summaries)
  /\ \E x \in summaries : x.authorId = "s1" /\ x.bookId = "b2"
  /\ points = [u \in Users |-> IF u = "s1" THEN 100
                               ELSE IF u = "t1" THEN 50 ELSE 0]

----------------------------------------------------------------------------
(* The rating dialog against the rating handler *)

\* C30: every rating request the summaries page can send is accepted by the
\* rating handler: each score of the dialog is inside the accepted range, and
\* every role that is shown the Rate control (TEACHER and ADMIN) can complete
\* a rating (its submit sends the request and the request is not refused)
C30_PageAccepted ==
  /\ last.kind # "page"
  /\ last.kind = "rate" => last.code \notin {400, 403}

----------------------------------------------------------------------------
(* The dashboard's counts under concurrent writes *)

\* C28: the dashboard response is consistent with itself even when the
\* user's progress updates come between the separate count queries:
\* totalBooksStarted = totalBooksCompleted + totalBooksReading +
\* totalBooksPaused, totalBooksCompleted <= totalBooksStarted, and
\* completionRate is within 0..100
C28_Consistent ==
  stats.code = 200 =>
    /\ stats.overview.totalBooksStarted =
         stats.overview.totalBooksCompleted + stats.overview.totalBooksReading
           + stats.overview.totalBooksPaused
    /\ stats.overview.totalBooksCompleted <= stats.overview.totalBooksStarted
    /\ stats.overview.completionRate \in 0..100

====
